---------------------------- MODULE Spec2Model ----------------------------
(***************************************************************************)
(* State-machine model of the websocket relay: the room manager            *)
(* (services/room-manager.ts), the presence service (services/presence.ts),*)
(* the connection lifecycle (handlers/connection.ts), the event router     *)
(* (index.ts) and the message / read / typing handlers.                    *)
(*                                                                         *)
(* One action is one run of a callback between two suspension points of    *)
(* the single-threaded event loop.  JavaScript Maps are functions whose    *)
(* DOMAIN is the key set; JavaScript Sets, which iterate in insertion      *)
(* order, are duplicate-free sequences.                                    *)
(***************************************************************************)
EXTENDS Integers, Sequences, FiniteSets, TLC

\* Connection handles (ServerWebSocket objects), identities and chat ids.
WS == {"w1", "w2"}
Users == {"u1", "u2"}
Chats == {"A", "B"}

\* Bounds of the model: downstream storage calls in flight at the same time,
\* and typing timers pending at the same time.
MaxInflight == 1

MaxTimers == 1

\* Close codes passed to ws.close.
AuthCloseCode == 4001

ShutdownCloseCode == 1001

\* config.maxMessageSize (the default of MAX_MESSAGE_SIZE).
maxMessageSize == 10000

\* makeRequest: the default of its `retries` parameter, and the base and the
\* cap of the backoff delay in milliseconds.
Retries == 3

BackoffBase == 1000

BackoffCap == 5000

None == "none"

VARIABLES
  tstate,          \* transport of each connection: new / open / closing / closed
  phase,           \* position of handleConnection for each connection
  hcUser,          \* userId of the profile handleConnection obtained
  initialized,     \* ws.data.initialized
  rooms,           \* RoomManagerImpl.rooms: chatId -> members
  wsRooms,         \* RoomManagerImpl.wsRooms: ws -> chatIds
  connectedUsers,  \* PresenceService.connectedUsers: userId -> ConnectedUser
  wsToUserId,      \* PresenceService.wsToUserId: ws -> userId
  timers,          \* pending setTimeout callbacks of the typing handler
  inflight,        \* handlers suspended in a storage call (makeRequest)
  out,             \* frames passed to ws.send, and codes passed to ws.close,
                   \* by the last callback, in order
  last,            \* the last callback that ran
  mr,              \* one invocation of makeRequest: its locals and its outcome
  workload,        \* what the clients send: the kinds of frames, and how many
                   \* typing timers and storage calls are pending at once
  plain,           \* reference room manager: a plain set of connections per
                   \* chat id, replaying the calls made on RoomManagerImpl
  process          \* running / shutting-down (isShuttingDown is set) / exited

vars == <<tstate, phase, hcUser, initialized, rooms, wsRooms,
          connectedUsers, wsToUserId, timers, inflight, out, last, mr,
          workload, plain, process>>

-----------------------------------------------------------------------------
\* JavaScript Map and Set primitives.

MapSet(m, k, v) == [x \in (DOMAIN m) \cup {k} |-> IF x = k THEN v ELSE m[x]]

MapDel(m, k) == [x \in (DOMAIN m) \ {k} |-> m[x]]

EmptyMap == [x \in {} |-> None]

Range(s) == {s[i] : i \in DOMAIN s}

\* Set.add: appended unless already present.
SetAdd(s, x) == IF x \in Range(s) THEN s ELSE Append(s, x)

\* Set.delete.
SetDelete(s, x) == SelectSeq(s, LAMBDA y : y # x)

\* new Set(array).
RECURSIVE SetOf(_)
SetOf(arr) ==
  IF arr = <<>> THEN <<>>
  ELSE SetAdd(SetOf(SubSeq(arr, 1, Len(arr) - 1)), arr[Len(arr)])

RECURSIVE Concat(_)
Concat(ss) == IF ss = <<>> THEN <<>> ELSE Head(ss) \o Concat(Tail(ss))

-----------------------------------------------------------------------------
\* Outbound frames.

Frame(to, type, chatId, userId, flag, code, chatIds) ==
  [to |-> to, type |-> type, chatId |-> chatId, userId |-> userId,
   flag |-> flag, code |-> code, chatIds |-> chatIds]

ErrorFrame(to, code) == Frame(to, "error", None, None, None, code, <<>>)

ConnectedFrame(to, userId, chatIds) ==
  Frame(to, "connected", None, userId, None, None, chatIds)

UserOnlineFrame(to, userId, online) ==
  Frame(to, "user:online", None, userId, online, None, <<>>)

ChatMessageFrame(to, chatId, senderId) ==
  Frame(to, "chat:message", chatId, senderId, None, None, <<>>)

ChatReadFrame(to, chatId, userId) ==
  Frame(to, "chat:read", chatId, userId, None, None, <<>>)

ChatTypingFrame(to, chatId, userId, isTyping) ==
  Frame(to, "chat:typing", chatId, userId, isTyping, None, <<>>)

PongFrame(to) == Frame(to, "pong", None, None, None, None, <<>>)

\* ws.close(code), recorded with the frames in the order of the calls.
CloseCall(ws, code) == Frame(ws, "close", None, None, None, code, <<>>)

\* A message string before it is addressed: broadcastToRoom sends the same
\* string to every recipient.
Addressed(msg, to) == [msg EXCEPT !.to = to]

-----------------------------------------------------------------------------
\* RoomManagerImpl.  A room manager state is the record [rooms, wsRooms].

\* Mutant of joinRoom: the room and the index are lists, and a connection or
\* chat id that is already present is added again.
joinRoomAgain(rm, chatId, ws) ==
  LET r  == IF chatId \in DOMAIN rm.rooms THEN rm.rooms[chatId] ELSE <<>>
      wr == IF ws \in DOMAIN rm.wsRooms THEN rm.wsRooms[ws] ELSE <<>>
  IN  [rooms   |-> MapSet(rm.rooms, chatId, Append(r, ws)),
       wsRooms |-> MapSet(rm.wsRooms, ws, Append(wr, chatId))]

joinRoom(rm, chatId, ws) ==
  LET r  == IF chatId \in DOMAIN rm.rooms THEN rm.rooms[chatId] ELSE <<>>
      wr == IF ws \in DOMAIN rm.wsRooms THEN rm.wsRooms[ws] ELSE <<>>
  IN  [rooms   |-> MapSet(rm.rooms, chatId, SetAdd(r, ws)),
       wsRooms |-> MapSet(rm.wsRooms, ws, SetAdd(wr, chatId))]

\* Mutant of RoomDelete: a room that became empty is kept.
RoomDeleteKeepEmpty(rs, chatId, ws) ==
  IF chatId \in DOMAIN rs
  THEN MapSet(rs, chatId, SetDelete(rs[chatId], ws))
  ELSE rs

\* room.delete(ws), and the room is dropped when it became empty.
RoomDelete(rs, chatId, ws) ==
  IF chatId \in DOMAIN rs
  THEN LET room == SetDelete(rs[chatId], ws)
       IN  IF Len(room) = 0 THEN MapDel(rs, chatId)
           ELSE MapSet(rs, chatId, room)
  ELSE rs

\* Mutant of leaveRoom: the per-connection index is not updated.
leaveRoomRoomOnly(rm, chatId, ws) ==
  [rooms   |-> RoomDelete(rm.rooms, chatId, ws),
   wsRooms |-> rm.wsRooms]

leaveRoom(rm, chatId, ws) ==
  [rooms   |-> RoomDelete(rm.rooms, chatId, ws),
   wsRooms |-> IF ws \in DOMAIN rm.wsRooms
               THEN LET s == SetDelete(rm.wsRooms[ws], chatId)
                    IN  IF Len(s) = 0 THEN MapDel(rm.wsRooms, ws)
                        ELSE MapSet(rm.wsRooms, ws, s)
               ELSE rm.wsRooms]

RECURSIVE LeaveEach(_, _, _)
LeaveEach(rs, chatIds, ws) ==
  IF chatIds = <<>> THEN rs
  ELSE LeaveEach(RoomDelete(rs, Head(chatIds), ws), Tail(chatIds), ws)

\* Mutant of leaveAllRooms: only the index entry of the connection is
\* dropped, the rooms keep the connection.
leaveAllRoomsIndexOnly(rm, ws) ==
  IF ws \in DOMAIN rm.wsRooms
  THEN [rooms   |-> rm.rooms,
        wsRooms |-> MapDel(rm.wsRooms, ws)]
  ELSE rm

leaveAllRooms(rm, ws) ==
  IF ws \in DOMAIN rm.wsRooms
  THEN [rooms   |-> LeaveEach(rm.rooms, rm.wsRooms[ws], ws),
        wsRooms |-> MapDel(rm.wsRooms, ws)]
  ELSE rm

\* Mutant of broadcastToRoom: the chat id is ignored and the frame goes to
\* the members of every room.
broadcastToEveryRoom(rs, chatId, msg, excludeWs) ==
  LET all == UNION {Range(rs[c]) : c \in DOMAIN rs} \ {excludeWs}
      to  == CHOOSE q \in [1..Cardinality(all) -> all] : Range(q) = all
  IN  [i \in 1..Len(to) |-> Addressed(msg, to[i])]

\* The frames broadcastToRoom sends, in the room's iteration order.
broadcastToRoom(rs, chatId, msg, excludeWs) ==
  IF chatId \notin DOMAIN rs THEN <<>>
  ELSE LET to == SelectSeq(rs[chatId], LAMBDA w : w # excludeWs)
       IN  [i \in 1..Len(to) |-> Addressed(msg, to[i])]

\* Mutant of SendLoop: no try/catch around ws.send, the first throw ends the
\* loop and reaches the caller.
RECURSIVE SendLoopUncaught(_, _, _)
SendLoopUncaught(to, msg, thrower) ==
  IF to = <<>> THEN [sent |-> <<>>, raised |-> FALSE]
  ELSE IF Head(to) = thrower
       THEN [sent |-> <<Addressed(msg, Head(to))>>, raised |-> TRUE]
       ELSE LET rest == SendLoopUncaught(Tail(to), msg, thrower)
            IN  [sent   |-> <<Addressed(msg, Head(to))>> \o rest.sent,
                 raised |-> rest.raised]

\* The loop of broadcastToRoom over the recipients `to` when ws.send of the
\* connection `thrower` throws: the frames passed to ws.send in order, and
\* whether an exception leaves the loop.  The catch block only logs.
RECURSIVE SendLoop(_, _, _)
SendLoop(to, msg, thrower) ==
  IF to = <<>> THEN [sent |-> <<>>, raised |-> FALSE]
  ELSE LET rest == SendLoop(Tail(to), msg, thrower)
       IN  [sent   |-> <<Addressed(msg, Head(to))>> \o rest.sent,
            raised |-> rest.raised]

\* broadcastToRoom when ws.send of `thrower` throws.
broadcastToRoomThrowing(rs, chatId, msg, excludeWs, thrower) ==
  IF chatId \notin DOMAIN rs THEN [sent |-> <<>>, raised |-> FALSE]
  ELSE SendLoop(SelectSeq(rs[chatId], LAMBDA w : w # excludeWs), msg, thrower)

getRoomParticipants(rs, chatId) ==
  IF chatId \in DOMAIN rs THEN rs[chatId] ELSE <<>>

getRoomCount(rs, chatId) ==
  IF chatId \in DOMAIN rs THEN Len(rs[chatId]) ELSE 0

\* The member set of a room.
Members(rs, chatId) == Range(getRoomParticipants(rs, chatId))

-----------------------------------------------------------------------------
\* PresenceService.  A presence state is [connectedUsers, wsToUserId]; a
\* ConnectedUser is [userId, ws, chatRooms, typingTimers].  A pending timer
\* is [id, ws, chatId, userId], where id is the handle setTimeout returned.

ConnectedUser(userId, ws, chatIds) ==
  [userId |-> userId, ws |-> ws, chatRooms |-> SetOf(chatIds),
   typingTimers |-> EmptyMap]

addUser(ps, user) ==
  [connectedUsers |-> MapSet(ps.connectedUsers, user.userId, user),
   wsToUserId     |-> MapSet(ps.wsToUserId, user.ws, user.userId)]

\* getUserByWs(ws) !== undefined
hasUserByWs(ps, ws) ==
  /\ ws \in DOMAIN ps.wsToUserId
  /\ ps.wsToUserId[ws] \in DOMAIN ps.connectedUsers

\* getUserByWs(ws), where it is defined.
getUserByWs(ps, ws) == ps.connectedUsers[ps.wsToUserId[ws]]

isUserOnline(ps, userId) == userId \in DOMAIN ps.connectedUsers

getOnlineUsers(ps) == {ps.connectedUsers[u] : u \in DOMAIN ps.connectedUsers}

removeUser(ps, ws) ==
  IF hasUserByWs(ps, ws)
  THEN [connectedUsers |-> MapDel(ps.connectedUsers, ps.wsToUserId[ws]),
        wsToUserId     |-> MapDel(ps.wsToUserId, ws)]
  ELSE ps

\* The handles removeUser passes to clearTimeout.
removeUserCleared(ps, ws) ==
  IF hasUserByWs(ps, ws)
  THEN Range(getUserByWs(ps, ws).typingTimers)
  ELSE {}

\* The frames broadcastPresence sends: one broadcast per distinct chat id.
broadcastPresence(rs, userId, online, chatIds) ==
  LET cs  == SetOf(chatIds)
      msg == UserOnlineFrame(None, userId, online)
  IN  Concat([i \in 1..Len(cs) |-> broadcastToRoom(rs, cs[i], msg, None)])

\* clearTimeout(handle) on the set of pending timers.
clearTimeout(tm, handle) == {t \in tm : t.id # handle}

\* setTypingTimer: the user's typingTimers after the call.
setTypingTimer(ps, userId, chatId, handle) ==
  IF userId \in DOMAIN ps.connectedUsers
  THEN [ps EXCEPT !.connectedUsers[userId].typingTimers =
                      MapSet(@, chatId, handle)]
  ELSE ps

\* The handles setTypingTimer passes to clearTimeout.
setTypingTimerCleared(ps, userId, chatId) ==
  IF /\ userId \in DOMAIN ps.connectedUsers
     /\ chatId \in DOMAIN ps.connectedUsers[userId].typingTimers
  THEN {ps.connectedUsers[userId].typingTimers[chatId]}
  ELSE {}

clearTypingTimer(ps, userId, chatId) ==
  IF /\ userId \in DOMAIN ps.connectedUsers
     /\ chatId \in DOMAIN ps.connectedUsers[userId].typingTimers
  THEN [ps EXCEPT !.connectedUsers[userId].typingTimers = MapDel(@, chatId)]
  ELSE ps

\* The handles clearTypingTimer passes to clearTimeout.
clearTypingTimerCleared(ps, userId, chatId) ==
  setTypingTimerCleared(ps, userId, chatId)

\* Handles that are pending or still stored in some typingTimers map.
UsedHandles(ps, tm) ==
  {t.id : t \in tm} \cup
  UNION {Range(ps.connectedUsers[u].typingTimers) : u \in DOMAIN ps.connectedUsers}

\* setTimeout returns a handle equal to no handle still in use; a handle is
\* named by the connection and chat of its callback and a number.
NewHandle(ps, tm, ws, chatId) ==
  LET H(n) == [ws |-> ws, chatId |-> chatId, n |-> n]
  IN  H(CHOOSE n \in 1..(Cardinality(UsedHandles(ps, tm)) + 1) :
          /\ H(n) \notin UsedHandles(ps, tm)
          /\ \A m \in 1..(n - 1) : H(m) \in UsedHandles(ps, tm))

-----------------------------------------------------------------------------
\* The current state of the two singletons.

RM == [rooms |-> rooms, wsRooms |-> wsRooms]

PS == [connectedUsers |-> connectedUsers, wsToUserId |-> wsToUserId]

\* makeRequest before it is called.  `attempt` is the loop counter, `log` the
\* outcome of every fetch issued so far, `delays` the backoff delays slept,
\* `lastError` the local of that name and `result` the value returned or the
\* error thrown.
NoError ==
  [name |-> None, code |-> None, statusCode |-> 0, message |-> None,
   originalError |-> None]

MrIdle ==
  [pc |-> "idle", attempt |-> 0, log |-> <<>>, delays |-> <<>>,
   lastError |-> NoError, result |-> NoError]

\* The record of a callback: which one, its connection, and for an inbound
\* event its type, chat id and whether its payload is well formed.
Last(op, ws, type, chatId, valid, result) ==
  [op |-> op, ws |-> ws, type |-> type, chatId |-> chatId, valid |-> valid,
   result |-> result]

\* ws.close(code): the transport starts closing unless it is closed already.
wsClose(ts, ws) ==
  [ts EXCEPT ![ws] = IF @ = "open" THEN "closing" ELSE @]

\* The server after construction: no connection, empty registry and
\* directory, nothing pending.
Fresh ==
  /\ tstate = [w \in WS |-> "new"]
  /\ phase = [w \in WS |-> "new"]
  /\ hcUser = [w \in WS |-> None]
  /\ initialized = [w \in WS |-> FALSE]
  /\ rooms = EmptyMap
  /\ wsRooms = EmptyMap
  /\ connectedUsers = EmptyMap
  /\ wsToUserId = EmptyMap
  /\ timers = {}
  /\ inflight = <<>>
  /\ out = <<>>
  /\ last = Last("init", None, None, None, TRUE, None)
  /\ mr = MrIdle
  /\ plain = [c \in Chats |-> {}]
  /\ process = "running"

-----------------------------------------------------------------------------
\* Connection lifecycle (handleConnection, run from the open callback).

\* The identities the token of each connection may belong to: the second
\* connection is a second connection of u1, or a connection of u2.
TokenUsers == [w \in WS |-> IF w = "w1" THEN {"u1"} ELSE Users]

\* The topic list the storage collaborator holds for each identity.
UserChats == [u \in Users |-> IF u = "u1" THEN <<"A", "B">> ELSE <<"A">>]

\* The catch block of handleConnection for an AuthenticationError, and the
\* no-token branch: error frame, ws.close(4001); the open callback then sets
\* ws.data.initialized.
Reject(ws, how) ==
  /\ out' = <<ErrorFrame(ws, "AUTH_FAILED"), CloseCall(ws, AuthCloseCode)>>
  /\ phase' = [phase EXCEPT ![ws] = "rejected"]
  /\ initialized' = [initialized EXCEPT ![ws] = TRUE]
  /\ last' = Last("connect", ws, None, None, TRUE, how)

\* The open callback up to the await of authenticateConnection.
Open(ws) ==
  /\ tstate[ws] = "new"
  /\ \E hasToken \in BOOLEAN :
       IF hasToken
       THEN /\ tstate' = [tstate EXCEPT ![ws] = "open"]
            /\ phase' = [phase EXCEPT ![ws] = "auth"]
            /\ out' = <<>>
            /\ last' = Last("open", ws, None, None, TRUE, None)
            /\ UNCHANGED initialized
       ELSE /\ tstate' = [tstate EXCEPT ![ws] = "closing"]
            /\ Reject(ws, "no-token")
  /\ UNCHANGED <<hcUser, rooms, wsRooms, connectedUsers, wsToUserId, timers,
                 inflight>>

\* What the fetch of /auth/profile can end in: a non-2xx status, a rejected
\* fetch, the abort of the timeout, or a 2xx response whose body may lack the
\* user object or one of the profile's fields.  `how` names the outcome.
Profile(how, hasUser, userId, email, name) ==
  [how |-> how, kind |-> "json", status |-> 200, hasUser |-> hasUser,
   userId |-> userId, email |-> email, name |-> name]

NoResponse(how, kind, status) ==
  [how |-> how, kind |-> kind, status |-> status, hasUser |-> FALSE,
   userId |-> None, email |-> FALSE, name |-> FALSE]

AuthFailures ==
  {NoResponse("401", "status", 401), NoResponse("403", "status", 403),
   NoResponse("500", "status", 500), NoResponse("network", "network", 0),
   NoResponse("timeout", "timeout", 0),
   Profile("no-user", FALSE, None, FALSE, FALSE),
   Profile("no-userId", TRUE, None, TRUE, TRUE),
   Profile("no-email", TRUE, "u1", FALSE, TRUE),
   Profile("no-name", TRUE, "u1", TRUE, FALSE)}

AuthOutcomes(ws) ==
  AuthFailures \cup {Profile("profile", TRUE, u, TRUE, TRUE) : u \in TokenUsers[ws]}

\* Mutant of verifyToken: the profile's email and name are not checked.
verifyTokenUserIdOnly(o) ==
  IF o.kind # "json" THEN "AuthenticationError"
  ELSE IF ~o.hasUser THEN "AuthenticationError"
  ELSE IF o.userId = None THEN "AuthenticationError"
  ELSE o.userId

\* verifyToken: the profile's userId, or "AuthenticationError" (thrown for a
\* non-2xx status and a profile with a missing field, and wrapped around
\* every other error by the catch block).
verifyToken(o) ==
  IF o.kind # "json" THEN "AuthenticationError"
  ELSE IF ~o.hasUser THEN "AuthenticationError"
  ELSE IF o.userId = None \/ ~o.email \/ ~o.name THEN "AuthenticationError"
  ELSE o.userId

\* handleConnection resumes from authenticateConnection: the profile's userId,
\* or an AuthenticationError.
AuthResult(ws) ==
  /\ phase[ws] = "auth"
  /\ \E o \in AuthOutcomes(ws) :
       IF verifyToken(o) = "AuthenticationError"
       THEN /\ tstate' = wsClose(tstate, ws)
            /\ Reject(ws, o.how)
            /\ UNCHANGED hcUser
       ELSE /\ phase' = [phase EXCEPT ![ws] = "chats"]
            /\ hcUser' = [hcUser EXCEPT ![ws] = verifyToken(o)]
            /\ out' = <<>>
            /\ last' = Last("auth", ws, None, None, TRUE, o.how)
            /\ UNCHANGED <<tstate, initialized>>
  /\ UNCHANGED <<rooms, wsRooms, connectedUsers, wsToUserId, timers, inflight>>

RECURSIVE JoinEach(_, _, _)
JoinEach(rm, chatIds, ws) ==
  IF chatIds = <<>> THEN rm
  ELSE JoinEach(joinRoom(rm, Head(chatIds), ws), Tail(chatIds), ws)

\* The user:online frames sent to the new connection for the peers already
\* in its rooms: one per distinct userId other than its own.
Backfill(rs, ps, ws, userId, chatIds) ==
  LET parts == Concat([i \in 1..Len(chatIds) |->
                         getRoomParticipants(rs, chatIds[i])])
      known == SelectSeq(parts, LAMBDA p : hasUserByWs(ps, p))
      ids   == [i \in 1..Len(known) |-> getUserByWs(ps, known[i]).userId]
      peers == SetOf(SelectSeq(ids, LAMBDA u : u # userId))
  IN  [i \in 1..Len(peers) |-> UserOnlineFrame(ws, peers[i], "true")]

\* The topic lists getChats may return for an identity: u2 is in A, and may
\* have been added to B as well.
StoredChats ==
  [u \in Users |-> IF u = "u2" THEN {UserChats[u], <<"A", "B">>}
                   ELSE {UserChats[u]}]

\* Mutant of FetchedChats: a failed fetch yields the stored topic list.
FetchedChatsIgnoringFailure(ok, stored) == stored

\* The chatIds of handleConnection after its inner try: the ids of the
\* response, or [] when getChats threw.
FetchedChats(ok, stored) == IF ok THEN stored ELSE <<>>

\* The repository holds two versions of handleConnection that differ in the
\* frames sent after the rooms are joined: one sends connected, then the
\* backfill, then the announcement; the other sends the announcement, then
\* connected, and no backfill.
HandleConnectionVersions == {"backfill-then-announce", "announce-then-connected"}

ConnectionFrames(version, rs, ps, ws, userId, chatIds) ==
  IF version = "backfill-then-announce"
  THEN <<ConnectedFrame(ws, userId, chatIds)>>
       \o Backfill(rs, ps, ws, userId, chatIds)
       \o broadcastPresence(rs, userId, "true", chatIds)
  ELSE broadcastPresence(rs, userId, "true", chatIds)
       \o <<ConnectedFrame(ws, userId, chatIds)>>

\* handleConnection resumes from getChats and runs to its end.
ChatsResult(ws) ==
  /\ phase[ws] = "chats"
  /\ \E ok \in BOOLEAN, version \in HandleConnectionVersions,
        stored \in StoredChats[hcUser[ws]] :
       LET userId  == hcUser[ws]
           chatIds == FetchedChats(ok, stored)
           ps1     == addUser(PS, ConnectedUser(userId, ws, chatIds))
           rm1     == JoinEach(RM, chatIds, ws)
       IN  /\ ~ok => stored = UserChats[userId]
           /\ connectedUsers' = ps1.connectedUsers
           /\ wsToUserId' = ps1.wsToUserId
           /\ rooms' = rm1.rooms
           /\ wsRooms' = rm1.wsRooms
           /\ out' = ConnectionFrames(version, rm1.rooms, ps1, ws, userId,
                                      chatIds)
           /\ last' = Last("connect", ws, version, None, TRUE,
                           IF ok THEN "connected" ELSE "soft-fail")
  /\ phase' = [phase EXCEPT ![ws] = "done"]
  /\ initialized' = [initialized EXCEPT ![ws] = TRUE]
  /\ UNCHANGED <<tstate, hcUser, timers, inflight>>

\* Mutant of handleDisconnection: the offline announcement is broadcast
\* before the connection leaves its rooms.
handleDisconnectionAnnounceFirst(ps, rm, tm, ws) ==
  IF hasUserByWs(ps, ws)
  THEN LET user == getUserByWs(ps, ws)
           rm1  == leaveAllRooms(rm, ws)
       IN  [ps     |-> removeUser(ps, ws),
            rm     |-> rm1,
            timers |-> {t \in tm : t.id \notin removeUserCleared(ps, ws)},
            out    |-> broadcastPresence(rm.rooms, user.userId, "false",
                                         user.chatRooms),
            userId |-> user.userId]
  ELSE [ps |-> ps, rm |-> rm, timers |-> tm, out |-> <<>>, userId |-> None]

\* handleDisconnection(ws) on directory ps, registry rm and pending timers
\* tm: the three after the call, the frames it sent, and the userId of the
\* Session it tore down (None when getUserByWs found none).
handleDisconnection(ps, rm, tm, ws) ==
  IF hasUserByWs(ps, ws)
  THEN LET user == getUserByWs(ps, ws)
           rm1  == leaveAllRooms(rm, ws)
       IN  [ps     |-> removeUser(ps, ws),
            rm     |-> rm1,
            timers |-> {t \in tm : t.id \notin removeUserCleared(ps, ws)},
            out    |-> broadcastPresence(rm1.rooms, user.userId, "false",
                                         user.chatRooms),
            userId |-> user.userId]
  ELSE [ps |-> ps, rm |-> rm, timers |-> tm, out |-> <<>>, userId |-> None]

\* The close callback: handleDisconnection.
Close(ws) ==
  /\ tstate[ws] \in {"open", "closing"}
  /\ tstate' = [tstate EXCEPT ![ws] = "closed"]
  /\ LET d == handleDisconnection(PS, RM, timers, ws)
     IN  /\ timers' = d.timers
         /\ connectedUsers' = d.ps.connectedUsers
         /\ wsToUserId' = d.ps.wsToUserId
         /\ rooms' = d.rm.rooms
         /\ wsRooms' = d.rm.wsRooms
         /\ out' = d.out
         /\ last' = Last("close", ws, None, None, TRUE, d.userId)
  /\ UNCHANGED <<phase, hcUser, initialized, inflight>>

-----------------------------------------------------------------------------
\* Event router (the message callback and handleMessage) and the handlers.

EventTypes == {"chat:message", "chat:read", "chat:typing", "ping"}

\* sendError of handleMessage's catch block, for the error a handler threw.
Thrown(ws, type, chatId, valid, code) ==
  /\ out' = <<ErrorFrame(ws, code)>>
  /\ last' = Last("event", ws, type, chatId, valid, code)
  /\ UNCHANGED <<tstate, connectedUsers, wsToUserId, timers,
                 inflight>>

\* handleChatMessage / handleChatRead after their checks: the handler
\* suspends in httpClient.sendMessage / markMessageAsRead.
StartCall(ws, type, chatId, user) ==
  /\ Len(inflight) < workload.inflight
  /\ inflight' = Append(inflight, [ws |-> ws, type |-> type, chatId |-> chatId,
                                   userId |-> user.userId, passedTo |-> {}])
  /\ out' = <<>>
  /\ last' = Last("event", ws, type, chatId, TRUE, "pending")
  /\ UNCHANGED <<tstate, connectedUsers, wsToUserId, timers>>

\* Mutant of Typing: the typing broadcast does not exclude the sender.
TypingEcho(ws, chatId, user, isTyping) ==
  LET ps1 == clearTypingTimer(PS, user.userId, chatId)
      tm1 == {t \in timers :
                t.id \notin clearTypingTimerCleared(PS, user.userId, chatId)}
      h   == NewHandle(ps1, tm1, ws, chatId)
      ps2 == setTypingTimer(ps1, user.userId, chatId, h)
  IN  /\ out' = broadcastToRoom(rooms, chatId,
                   ChatTypingFrame(None, chatId, user.userId,
                                   IF isTyping THEN "true" ELSE "false"), None)
      /\ IF isTyping
         THEN /\ Cardinality(tm1) < workload.timers
              /\ timers' = tm1 \cup {[id |-> h, ws |-> ws, chatId |-> chatId,
                                      userId |-> user.userId]}
              /\ connectedUsers' = ps2.connectedUsers
         ELSE /\ timers' = tm1
              /\ connectedUsers' = ps1.connectedUsers
      /\ last' = Last("event", ws, "chat:typing", chatId, TRUE,
                      IF isTyping THEN "true" ELSE "false")
      /\ UNCHANGED <<tstate, wsToUserId, inflight>>

\* handleChatTyping after its checks.
Typing(ws, chatId, user, isTyping) ==
  LET ps1 == clearTypingTimer(PS, user.userId, chatId)
      tm1 == {t \in timers :
                t.id \notin clearTypingTimerCleared(PS, user.userId, chatId)}
      h   == NewHandle(ps1, tm1, ws, chatId)
      ps2 == setTypingTimer(ps1, user.userId, chatId, h)
  IN  /\ out' = broadcastToRoom(rooms, chatId,
                   ChatTypingFrame(None, chatId, user.userId,
                                   IF isTyping THEN "true" ELSE "false"), ws)
      /\ IF isTyping
         THEN /\ Cardinality(tm1) < workload.timers
              /\ timers' = tm1 \cup {[id |-> h, ws |-> ws, chatId |-> chatId,
                                      userId |-> user.userId]}
              /\ connectedUsers' = ps2.connectedUsers
         ELSE /\ timers' = tm1
              /\ connectedUsers' = ps1.connectedUsers
      /\ last' = Last("event", ws, "chat:typing", chatId, TRUE,
                      IF isTyping THEN "true" ELSE "false")
      /\ UNCHANGED <<tstate, wsToUserId, inflight>>

\* Mutant of handleMessage: the handlers skip the participant check.
handleMessageNoParticipantCheck(ws, type, chatId, valid, isTyping) ==
  IF type = "ping"
  THEN /\ out' = <<PongFrame(ws)>>
       /\ last' = Last("event", ws, type, None, TRUE, "pong")
       /\ UNCHANGED <<tstate, connectedUsers, wsToUserId, timers, inflight>>
  ELSE IF ~hasUserByWs(PS, ws)
       THEN Thrown(ws, type, chatId, valid, "INTERNAL_ERROR")
  ELSE IF ~valid THEN Thrown(ws, type, chatId, valid, "VALIDATION_ERROR")
  ELSE IF type = "chat:typing"
       THEN Typing(ws, chatId, getUserByWs(PS, ws), isTyping)
  ELSE StartCall(ws, type, chatId, getUserByWs(PS, ws))

\* handleMessage for a frame that parsed to {type, payload} with a string
\* chatId; `valid` says whether the other payload fields pass the handler's
\* checks (content, messageId, isTyping).
handleMessage(ws, type, chatId, valid, isTyping) ==
  IF type = "ping"
  THEN /\ out' = <<PongFrame(ws)>>
       /\ last' = Last("event", ws, type, None, TRUE, "pong")
       /\ UNCHANGED <<tstate, connectedUsers, wsToUserId, timers,
                      inflight>>
  ELSE IF ~hasUserByWs(PS, ws) THEN Thrown(ws, type, chatId, valid, "INTERNAL_ERROR")
  ELSE IF ~valid THEN Thrown(ws, type, chatId, valid, "VALIDATION_ERROR")
  ELSE IF chatId \notin Range(getUserByWs(PS, ws).chatRooms)
       THEN Thrown(ws, type, chatId, valid, "NOT_PARTICIPANT")
  ELSE IF type = "chat:typing"
       THEN Typing(ws, chatId, getUserByWs(PS, ws), isTyping)
  ELSE StartCall(ws, type, chatId, getUserByWs(PS, ws))

\* The lengths of an inbound frame: the largest accepted one, and one more.
FrameLengths == {maxMessageSize, maxMessageSize + 1}

\* What the record of the callback holds as the type of a frame: nothing of
\* an oversized frame is parsed.
FrameType(len, type) == IF len > maxMessageSize THEN "oversize" ELSE type

\* Frames that do not parse to an envelope with a known type: text that is
\* not JSON, the JSON value null, an object without a type, an object whose
\* type is not a string, and an object whose type names no handler.
MalformedTypes ==
  {"non-json", "null", "no-type", "non-string-type", "unknown-type"}

FrameKinds == EventTypes \cup MalformedTypes

\* handleMessage from JSON.parse on: the parse, the destructuring of the
\* envelope (which throws a TypeError for null, answered by the outer catch),
\* the type check and the switch.  The record of the callback holds
\* "malformed" as the type of every frame of MalformedTypes.
parseAndRoute(ws, type, chatId, valid, isTyping) ==
  IF type = "non-json"
  THEN Thrown(ws, "malformed", chatId, valid, "INVALID_MESSAGE")
  ELSE IF type = "null"
       THEN Thrown(ws, "malformed", chatId, valid, "INTERNAL_ERROR")
  ELSE IF type \in {"no-type", "non-string-type"}
       THEN Thrown(ws, "malformed", chatId, valid, "INVALID_MESSAGE")
  ELSE IF type \notin EventTypes
       THEN Thrown(ws, "malformed", chatId, valid, "INVALID_MESSAGE")
  ELSE handleMessage(ws, type, chatId, valid, isTyping)

\* Mutant of handleFrame: the length is not checked, and the oversized frame
\* (a ping) is parsed and routed to handlePing.
handleFrameWithoutLengthCheck(ws, len, type, chatId, valid, isTyping) ==
  IF len > maxMessageSize
  THEN /\ out' = <<PongFrame(ws)>>
       /\ last' = Last("event", ws, "oversize", None, TRUE, "pong")
       /\ UNCHANGED <<tstate, connectedUsers, wsToUserId, timers, inflight>>
  ELSE parseAndRoute(ws, type, chatId, valid, isTyping)

\* handleMessage from its first line: the length check, then the parse and
\* the routing.
handleFrame(ws, len, type, chatId, valid, isTyping) ==
  IF len > maxMessageSize
  THEN /\ out' = <<ErrorFrame(ws, "VALIDATION_ERROR")>>
       /\ last' = Last("event", ws, "oversize", None, TRUE, "VALIDATION_ERROR")
       /\ UNCHANGED <<tstate, connectedUsers, wsToUserId, timers, inflight>>
  ELSE parseAndRoute(ws, type, chatId, valid, isTyping)

\* Mutant of Message: ws.data.initialized is not checked.
MessageWithoutInitializedCheck(ws) ==
  /\ tstate[ws] = "open"
  /\ \E len \in FrameLengths, type \in FrameKinds, chatId \in Chats,
        valid \in BOOLEAN, isTyping \in BOOLEAN :
       /\ type \in workload.kinds
       /\ (type \in MalformedTypes \cup {"ping"} => chatId = "A" /\ valid)
       /\ (type # "chat:typing" => isTyping)
       /\ (~valid => chatId = "B")
       /\ (len > maxMessageSize => type = "ping")
       /\ handleFrame(ws, len, type, chatId, valid, isTyping)
  /\ UNCHANGED <<phase, hcUser, initialized, rooms, wsRooms>>

\* The message callback.  The inputs that differ only in parts the code never
\* reads are drawn once: a ping has no payload, a payload that fails the
\* field checks names chat B, a frame that arrives before
\* ws.data.initialized is set is a ping or a chat:message, an oversized
\* frame is a ping, and a malformed frame has no payload.
Message(ws) ==
  /\ tstate[ws] = "open"
  /\ \E len \in FrameLengths, type \in FrameKinds, chatId \in Chats,
        valid \in BOOLEAN, isTyping \in BOOLEAN :
       /\ type \in workload.kinds
       /\ (type \in MalformedTypes \cup {"ping"} => chatId = "A" /\ valid)
       /\ (type # "chat:typing" => isTyping)
       /\ (~valid => chatId = "B")
       /\ (~initialized[ws] =>
             type \in {"ping", "chat:message"} /\ chatId = "A" /\ valid)
       /\ (len > maxMessageSize => type = "ping")
       /\ IF ~initialized[ws]
          THEN /\ out' = <<ErrorFrame(ws, "AUTH_FAILED"),
                           CloseCall(ws, AuthCloseCode)>>
               /\ tstate' = wsClose(tstate, ws)
               /\ last' = Last("event", ws, FrameType(len, type), chatId,
                               valid, "AUTH_FAILED")
               /\ UNCHANGED <<connectedUsers, wsToUserId, timers, inflight>>
          ELSE handleFrame(ws, len, type, chatId, valid, isTyping)
  /\ UNCHANGED <<phase, hcUser, initialized, rooms, wsRooms>>

-----------------------------------------------------------------------------
\* Storage calls (makeRequest) of suspended message / read handlers.

Remove(s, i) == SubSeq(s, 1, i - 1) \o SubSeq(s, i + 1, Len(s))

\* Mutant of CallFail: the handler broadcasts before the storage call's
\* failure reaches it.
CallFailAfterBroadcast(i) ==
  /\ i \in DOMAIN inflight
  /\ inflight' = Remove(inflight, i)
  /\ out' = broadcastToRoom(rooms, inflight[i].chatId,
               ChatMessageFrame(None, inflight[i].chatId, inflight[i].userId),
               inflight[i].ws)
            \o <<ErrorFrame(inflight[i].ws, "HTTP_ERROR")>>
  /\ last' = Last("call", inflight[i].ws, inflight[i].type,
                  inflight[i].chatId, TRUE, "HTTP_ERROR")
  /\ UNCHANGED <<tstate, phase, hcUser, initialized, rooms,
                 wsRooms, connectedUsers, wsToUserId, timers>>

\* makeRequest throws HttpError (a client fault, or the attempts are used
\* up) and handleMessage's catch block replies.
CallFail(i) ==
  /\ i \in DOMAIN inflight
  /\ inflight' = Remove(inflight, i)
  /\ out' = <<ErrorFrame(inflight[i].ws, "HTTP_ERROR")>>
  /\ last' = Last("call", inflight[i].ws, inflight[i].type,
                  inflight[i].chatId, TRUE, "HTTP_ERROR")
  /\ UNCHANGED <<tstate, phase, hcUser, initialized, rooms,
                 wsRooms, connectedUsers, wsToUserId, timers>>

\* Mutant of CallBroadcast: the sender is not excluded.
CallBroadcastEcho(rs, c) ==
  IF c.type = "chat:message"
  THEN broadcastToRoom(rs, c.chatId,
                       ChatMessageFrame(None, c.chatId, c.userId), None)
  ELSE broadcastToRoom(rs, c.chatId,
                       ChatReadFrame(None, c.chatId, c.userId), None)

\* The broadcast a handler makes when its storage call returned.
CallBroadcast(rs, c) ==
  IF c.type = "chat:message"
  THEN broadcastToRoom(rs, c.chatId,
                       ChatMessageFrame(None, c.chatId, c.userId), c.ws)
  ELSE broadcastToRoom(rs, c.chatId,
                       ChatReadFrame(None, c.chatId, c.userId), c.ws)

\* The suspended handlers after the chat:message call i was broadcast to the
\* connections `to`: every chat:message call of the same connection for the
\* same chat that was issued earlier and is still pending has been passed,
\* for those connections, by a later message.  passedTo is history only: no
\* handler reads it.
Passed(calls, i, to) ==
  [j \in DOMAIN calls |->
     IF /\ j < i
        /\ calls[i].type = "chat:message" /\ calls[j].type = "chat:message"
        /\ calls[j].ws = calls[i].ws /\ calls[j].chatId = calls[i].chatId
     THEN [calls[j] EXCEPT !.passedTo = @ \cup to]
     ELSE calls[j]]

\* makeRequest returns and the handler resumes.
CallOk(i) ==
  /\ i \in DOMAIN inflight
  /\ inflight' = Remove(Passed(inflight, i,
                               {f.to : f \in Range(CallBroadcast(rooms,
                                                                 inflight[i]))}),
                       i)
  /\ out' = CallBroadcast(rooms, inflight[i])
  /\ last' = Last("call", inflight[i].ws, inflight[i].type,
                  inflight[i].chatId, TRUE, "ok")
  /\ UNCHANGED <<tstate, phase, hcUser, initialized, rooms,
                 wsRooms, connectedUsers, wsToUserId, timers>>

\* The setTimeout callback of handleChatTyping.
TimerFire(t) ==
  /\ t \in timers
  /\ timers' = timers \ {t}
  /\ out' = broadcastToRoom(rooms, t.chatId,
               ChatTypingFrame(None, t.chatId, t.userId, "false"), t.ws)
  /\ last' = Last("timer", t.ws, "chat:typing", t.chatId, TRUE, None)
  /\ UNCHANGED <<tstate, phase, hcUser, initialized, rooms,
                 wsRooms, connectedUsers, wsToUserId, inflight>>

-----------------------------------------------------------------------------
\* A workload: the kinds of frames the clients send, and how many typing
\* timers and storage calls may be pending at the same time.
Workload(kinds, maxTimers, maxInflight) ==
  [kinds |-> kinds, timers |-> maxTimers, inflight |-> maxInflight]

\* Clients send every kind of frame.
Init == Fresh /\ workload = Workload(FrameKinds, MaxTimers, MaxInflight)

-----------------------------------------------------------------------------
\* makeRequest (the HTTP client's retry loop), one invocation.

\* What one fetch can end in: a 2xx response whose body parses, a 2xx response
\* whose body response.json() cannot parse, a non-2xx status, a rejected
\* fetch (network failure), or the abort of the timeout.
Statuses == {400, 404, 500, 503}

FetchOutcomes ==
  {[kind |-> "json", status |-> 200], [kind |-> "badjson", status |-> 200],
   [kind |-> "network", status |-> 0], [kind |-> "timeout", status |-> 0]}
  \cup {[kind |-> "status", status |-> st] : st \in Statuses}

\* The message of the error the catch block sees for a failed attempt.
MessageOf(o) ==
  CASE o.kind = "status" /\ o.status = 400 -> "HTTP 400"
    [] o.kind = "status" /\ o.status = 404 -> "HTTP 404"
    [] o.kind = "status" /\ o.status = 500 -> "HTTP 500"
    [] o.kind = "status" /\ o.status = 503 -> "HTTP 503"
    [] o.kind = "badjson" -> "Unexpected end of JSON input"
    [] o.kind = "network" -> "fetch failed"
    [] o.kind = "timeout" -> "The operation was aborted"
    [] OTHER -> None

\* The error the catch block sees for a failed attempt.
ErrorOf(o) ==
  IF o.kind = "status"
  THEN [name |-> "HttpError", code |-> "HTTP_ERROR", statusCode |-> o.status,
        message |-> MessageOf(o), originalError |-> None]
  ELSE [name |-> (CASE o.kind = "badjson" -> "SyntaxError"
                    [] o.kind = "network" -> "TypeError"
                    [] OTHER -> "AbortError"),
        code |-> None, statusCode |-> 0, message |-> MessageOf(o),
        originalError |-> None]

\* new HttpError('Request failed after retries', undefined,
\*               { originalError: lastError?.message })
ExhaustedError(lastError) ==
  [name |-> "HttpError", code |-> "HTTP_ERROR", statusCode |-> 0,
   message |-> "Request failed after retries",
   originalError |-> lastError.message]

\* The value makeRequest returns.
Returned == [NoError EXCEPT !.name = "value"]

Min(a, b) == IF a < b THEN a ELSE b

\* Math.min(1000 * Math.pow(2, attempt), 5000)
Delay(attempt) == Min(BackoffBase * (2 ^ attempt), BackoffCap)

\* makeRequest is called and issues its first fetch.
MrCall ==
  /\ mr.pc = "idle"
  /\ mr' = [mr EXCEPT !.pc = "fetch"]
  /\ UNCHANGED <<tstate, phase, hcUser, initialized, rooms, wsRooms,
                 connectedUsers, wsToUserId, timers, inflight, out, last,
                 workload, plain, process>>

\* Mutant of MrSettle: a client-fault status is retried like any other error.
MrSettleRetryClientFault(o) ==
  /\ mr.pc = "fetch"
  /\ IF o.kind = "json"
     THEN mr' = [mr EXCEPT !.pc = "returned", !.log = Append(@, o),
                           !.result = Returned]
     ELSE IF mr.attempt = Retries - 1
          THEN mr' = [mr EXCEPT !.pc = "thrown", !.log = Append(@, o),
                                !.lastError = ErrorOf(o),
                                !.result = ExhaustedError(ErrorOf(o))]
     ELSE mr' = [mr EXCEPT !.pc = "backoff", !.log = Append(@, o),
                           !.lastError = ErrorOf(o),
                           !.delays = Append(@, Delay(mr.attempt))]
  /\ UNCHANGED <<tstate, phase, hcUser, initialized, rooms, wsRooms,
                 connectedUsers, wsToUserId, timers, inflight, out, last,
                 workload, plain, process>>

\* Mutant of MrSettle: lastError keeps the first error caught.
MrSettleFirstCause(o) ==
  LET err == IF mr.lastError = NoError THEN ErrorOf(o) ELSE mr.lastError
  IN
  /\ mr.pc = "fetch"
  /\ IF o.kind = "json"
     THEN mr' = [mr EXCEPT !.pc = "returned", !.log = Append(@, o),
                           !.result = Returned]
     ELSE IF /\ ErrorOf(o).name = "HttpError"
             /\ ErrorOf(o).statusCode # 0
             /\ ErrorOf(o).statusCode < 500
          THEN mr' = [mr EXCEPT !.pc = "thrown", !.log = Append(@, o),
                                !.lastError = err, !.result = ErrorOf(o)]
     ELSE IF mr.attempt = Retries - 1
          THEN mr' = [mr EXCEPT !.pc = "thrown", !.log = Append(@, o),
                                !.lastError = err,
                                !.result = ExhaustedError(err)]
     ELSE mr' = [mr EXCEPT !.pc = "backoff", !.log = Append(@, o),
                           !.lastError = err,
                           !.delays = Append(@, Delay(mr.attempt))]
  /\ UNCHANGED <<tstate, phase, hcUser, initialized, rooms, wsRooms,
                 connectedUsers, wsToUserId, timers, inflight, out, last,
                 workload, plain, process>>

\* The fetch of the current attempt settles with outcome o and the loop body
\* runs to its next suspension point: return, throw, or the backoff sleep.
MrSettle(o) ==
  /\ mr.pc = "fetch"
  /\ IF o.kind = "json"
     THEN mr' = [mr EXCEPT !.pc = "returned", !.log = Append(@, o),
                           !.result = Returned]
     ELSE IF /\ ErrorOf(o).name = "HttpError"
             /\ ErrorOf(o).statusCode # 0
             /\ ErrorOf(o).statusCode < 500
          THEN mr' = [mr EXCEPT !.pc = "thrown", !.log = Append(@, o),
                                !.lastError = ErrorOf(o),
                                !.result = ErrorOf(o)]
     ELSE IF mr.attempt = Retries - 1
          THEN mr' = [mr EXCEPT !.pc = "thrown", !.log = Append(@, o),
                                !.lastError = ErrorOf(o),
                                !.result = ExhaustedError(ErrorOf(o))]
     ELSE mr' = [mr EXCEPT !.pc = "backoff", !.log = Append(@, o),
                           !.lastError = ErrorOf(o),
                           !.delays = Append(@, Delay(mr.attempt))]
  /\ UNCHANGED <<tstate, phase, hcUser, initialized, rooms, wsRooms,
                 connectedUsers, wsToUserId, timers, inflight, out, last,
                 workload, plain, process>>

\* The backoff sleep ends: attempt++, the loop condition, and the next fetch
\* (or the throw after the loop).
MrWake ==
  /\ mr.pc = "backoff"
  /\ IF mr.attempt + 1 < Retries
     THEN mr' = [mr EXCEPT !.pc = "fetch", !.attempt = @ + 1]
     ELSE mr' = [mr EXCEPT !.pc = "thrown", !.attempt = @ + 1,
                           !.result = ExhaustedError(mr.lastError)]
  /\ UNCHANGED <<tstate, phase, hcUser, initialized, rooms, wsRooms,
                 connectedUsers, wsToUserId, timers, inflight, out, last,
                 workload, plain, process>>

RetryNext ==
  \/ MrCall
  \/ \E o \in FetchOutcomes : MrSettle(o)
  \/ MrWake

\* Every fetch settles (with a response, a failure or the abort of its
\* timeout) and every sleep ends.
RetrySpec == Init /\ [][RetryNext]_vars /\ WF_vars(RetryNext)

\* httpClient.sendMessage: the POST of one chat:message event.  What one
\* fetch of it can end in, with whether the storage service created the
\* message record for that request: it did when it answered 2xx, it did not
\* when it answered with an error status, and either is possible when the
\* fetch was aborted by the timeout or failed on the network.
PostOutcomes ==
  {[kind |-> "json", status |-> 200, created |-> TRUE],
   [kind |-> "badjson", status |-> 200, created |-> TRUE]}
  \cup {[kind |-> k, status |-> 0, created |-> b] :
          k \in {"network", "timeout"}, b \in BOOLEAN}
  \cup {[kind |-> "status", status |-> st, created |-> FALSE] :
          st \in Statuses}

\* The message records the requests of a call created.
RECURSIVE Created(_)
Created(log) ==
  IF log = <<>> THEN 0
  ELSE (IF Head(log).created THEN 1 ELSE 0) + Created(Tail(log))

PostNext ==
  \/ MrCall
  \/ \E o \in PostOutcomes : MrSettle(o)
  \/ MrWake

PostSpec == Init /\ [][PostNext]_vars

-----------------------------------------------------------------------------
Next ==
  \/ \E ws \in WS : Open(ws) /\ UNCHANGED <<mr, workload, plain, process>>
  \/ \E ws \in WS : AuthResult(ws) /\ UNCHANGED <<mr, workload, plain, process>>
  \/ \E ws \in WS : ChatsResult(ws) /\ UNCHANGED <<mr, workload, plain, process>>
  \/ \E ws \in WS : Message(ws) /\ UNCHANGED <<mr, workload, plain, process>>
  \/ \E ws \in WS : Close(ws) /\ UNCHANGED <<mr, workload, plain, process>>
  \/ \E i \in 1..MaxInflight : CallFail(i) /\ UNCHANGED <<mr, workload, plain, process>>
  \/ \E i \in 1..MaxInflight : CallOk(i) /\ UNCHANGED <<mr, workload, plain, process>>
  \/ \E t \in timers : TimerFire(t) /\ UNCHANGED <<mr, workload, plain, process>>

Spec == Init /\ [][Next]_vars

-----------------------------------------------------------------------------
\* Typing: the clients send chat:typing events only, and up to
\* MaxTypingTimers typing timers are pending at the same time.
MaxTypingTimers == 2

TypingInit == Fresh /\ workload = Workload({"chat:typing"}, MaxTypingTimers, 0)

TypingNext ==
  \/ \E ws \in WS : Open(ws) /\ UNCHANGED <<mr, workload, plain, process>>
  \/ \E ws \in WS : AuthResult(ws) /\ UNCHANGED <<mr, workload, plain, process>>
  \/ \E ws \in WS : ChatsResult(ws) /\ UNCHANGED <<mr, workload, plain, process>>
  \/ \E ws \in WS : Message(ws) /\ UNCHANGED <<mr, workload, plain, process>>
  \/ \E ws \in WS : Close(ws) /\ UNCHANGED <<mr, workload, plain, process>>
  \/ \E t \in timers : TimerFire(t) /\ UNCHANGED <<mr, workload, plain, process>>

TypingSpec == TypingInit /\ [][TypingNext]_vars

\* Every pending timer a typing handler can install: setTimeout runs the
\* callback of a timer that stays pending.
TimerRecords ==
  {[id |-> [ws |-> w, chatId |-> c, n |-> n], ws |-> w, chatId |-> c,
    userId |-> u] :
     w \in WS, c \in Chats, n \in 1..(MaxTypingTimers + 2), u \in Users}

TypingLiveSpec ==
  /\ TypingInit
  /\ [][TypingNext]_vars
  /\ \A t \in TimerRecords :
       WF_vars(TimerFire(t) /\ UNCHANGED <<mr, workload, plain, process>>)

-----------------------------------------------------------------------------
\* Ordering: the clients send chat:message events only, and up to MaxPending
\* storage calls are pending at the same time.
MaxPending == 2

OrderInit == Fresh /\ workload = Workload({"chat:message"}, 0, MaxPending)

OrderNext ==
  \/ \E ws \in WS : Open(ws) /\ UNCHANGED <<mr, workload, plain, process>>
  \/ \E ws \in WS : AuthResult(ws) /\ UNCHANGED <<mr, workload, plain, process>>
  \/ \E ws \in WS : ChatsResult(ws) /\ UNCHANGED <<mr, workload, plain, process>>
  \/ \E ws \in WS : Message(ws) /\ UNCHANGED <<mr, workload, plain, process>>
  \/ \E ws \in WS : Close(ws) /\ UNCHANGED <<mr, workload, plain, process>>
  \/ \E i \in 1..MaxPending : CallFail(i) /\ UNCHANGED <<mr, workload, plain, process>>
  \/ \E i \in 1..MaxPending : CallOk(i) /\ UNCHANGED <<mr, workload, plain, process>>

OrderSpec == OrderInit /\ [][OrderNext]_vars

-----------------------------------------------------------------------------
\* Graceful shutdown.

isShuttingDown == process # "running"

\* The orders in which a loop can visit the Sessions of the directory.
Orders(ps) ==
  {q \in [1..Cardinality(DOMAIN ps.connectedUsers) -> DOMAIN ps.connectedUsers] :
     Range(q) = DOMAIN ps.connectedUsers}

\* The loop of gracefulShutdown over getOnlineUsers() in the order q: the
\* notification and ws.close(1001) for the connection of every Session.
RECURSIVE ShutdownFrames(_, _)
ShutdownFrames(ps, q) ==
  IF q = <<>> THEN <<>>
  ELSE LET ws == ps.connectedUsers[Head(q)].ws
       IN  <<ErrorFrame(ws, "SERVER_SHUTDOWN"),
             CloseCall(ws, ShutdownCloseCode)>>
           \o ShutdownFrames(ps, Tail(q))

\* gracefulShutdown(signal) up to its sleep.
Signal ==
  /\ process # "exited"
  /\ IF isShuttingDown
     THEN /\ out' = <<>>
          /\ last' = Last("signal", None, None, None, TRUE, "ignored")
          /\ UNCHANGED <<tstate, process>>
     ELSE \E q \in Orders(PS) :
            /\ out' = ShutdownFrames(PS, q)
            /\ tstate' = [w \in WS |->
                            IF /\ tstate[w] = "open"
                               /\ \E u \in DOMAIN connectedUsers :
                                    connectedUsers[u].ws = w
                            THEN "closing" ELSE tstate[w]]
            /\ process' = "shutting-down"
            /\ last' = Last("signal", None, None, None, TRUE, "shutdown")
  /\ UNCHANGED <<phase, hcUser, initialized, rooms, wsRooms, connectedUsers,
                 wsToUserId, timers, inflight, mr, workload, plain>>

\* The sleep of gracefulShutdown ends: process.exit(0).
Exit ==
  /\ process = "shutting-down"
  /\ process' = "exited"
  /\ out' = <<>>
  /\ last' = Last("exit", None, None, None, TRUE, None)
  /\ UNCHANGED <<tstate, phase, hcUser, initialized, rooms, wsRooms,
                 connectedUsers, wsToUserId, timers, inflight, mr, workload,
                 plain>>

\* Shutdown: the clients send pings only; a signal can arrive at any time,
\* and nothing runs after the exit.
ShutdownInit == Fresh /\ workload = Workload({"ping"}, 0, 0)

ShutdownNext ==
  \/ \E ws \in WS : process # "exited" /\ Open(ws)
                     /\ UNCHANGED <<mr, workload, plain, process>>
  \/ \E ws \in WS : process # "exited" /\ AuthResult(ws)
                     /\ UNCHANGED <<mr, workload, plain, process>>
  \/ \E ws \in WS : process # "exited" /\ ChatsResult(ws)
                     /\ UNCHANGED <<mr, workload, plain, process>>
  \/ \E ws \in WS : process # "exited" /\ Message(ws)
                     /\ UNCHANGED <<mr, workload, plain, process>>
  \/ \E ws \in WS : process # "exited" /\ Close(ws)
                     /\ UNCHANGED <<mr, workload, plain, process>>
  \/ Signal
  \/ Exit

ShutdownSpec == ShutdownInit /\ [][ShutdownNext]_vars

-----------------------------------------------------------------------------
\* The room manager alone: any sequence of joinRoom, leaveRoom and
\* leaveAllRooms calls.  A call is recorded with whether the room existed
\* and whether the connection was a member when it was made.
RegistryInit == Fresh /\ workload = Workload({}, 0, 0)

Existed(chatId) == IF chatId \in DOMAIN rooms THEN "room" ELSE "no-room"

WasMember(chatId, ws) ==
  IF ws \in Members(rooms, chatId) THEN "member" ELSE "not-member"

RegistryCall(op, ws, chatId, rm) ==
  /\ rooms' = rm.rooms
  /\ plain' = [c \in Chats |->
                 IF op = "joinRoom" /\ c = chatId THEN plain[c] \cup {ws}
                 ELSE IF op = "leaveRoom" /\ c = chatId THEN plain[c] \ {ws}
                 ELSE IF op = "leaveAllRooms" THEN plain[c] \ {ws}
                 ELSE plain[c]]
  /\ wsRooms' = rm.wsRooms
  /\ out' = <<>>
  /\ last' = Last(op, ws, IF chatId = None THEN None ELSE Existed(chatId),
                  chatId, TRUE,
                  IF chatId = None THEN None ELSE WasMember(chatId, ws))
  /\ UNCHANGED <<tstate, phase, hcUser, initialized, connectedUsers,
                 wsToUserId, timers, inflight, mr, workload, process>>

JoinRoomCall(chatId, ws) ==
  RegistryCall("joinRoom", ws, chatId, joinRoom(RM, chatId, ws))

LeaveRoomCall(chatId, ws) ==
  RegistryCall("leaveRoom", ws, chatId, leaveRoom(RM, chatId, ws))

LeaveAllRoomsCall(ws) ==
  RegistryCall("leaveAllRooms", ws, None, leaveAllRooms(RM, ws))

\* broadcastToRoom(chatId, message, excludeWs) while ws.send of `thrower`
\* throws (of no connection when thrower is None).  The call is recorded
\* with the thrower and the excluded connection.
BroadcastCall(chatId, excludeWs, thrower) ==
  LET b == broadcastToRoomThrowing(rooms, chatId,
                                   ChatMessageFrame(None, chatId, None),
                                   excludeWs, thrower)
  IN  /\ out' = b.sent
      /\ last' = Last("broadcastToRoom", thrower, excludeWs, chatId, TRUE,
                      IF b.raised THEN "raised" ELSE "returned")
      /\ UNCHANGED <<rooms, wsRooms, tstate, phase, hcUser, initialized,
                     connectedUsers, wsToUserId, timers, inflight, mr,
                     workload, plain, process>>

RegistryNext ==
  \/ \E chatId \in Chats, ws \in WS : JoinRoomCall(chatId, ws)
  \/ \E chatId \in Chats, ws \in WS : LeaveRoomCall(chatId, ws)
  \/ \E ws \in WS : LeaveAllRoomsCall(ws)
  \/ \E chatId \in Chats, excludeWs \in WS \cup {None},
        thrower \in WS \cup {None} : BroadcastCall(chatId, excludeWs, thrower)

RegistrySpec == RegistryInit /\ [][RegistryNext]_vars

-----------------------------------------------------------------------------
\* Vocabulary of the properties.

\* The connection completed handleConnection with a registered Session and
\* its close callback has not run.
Live(ws) == phase[ws] = "done" /\ tstate[ws] # "closed"

\* The Sessions of the directory whose connection handle is ws.
SessionsOf(ws) ==
  {u \in DOMAIN connectedUsers : connectedUsers[u].ws = ws}

\* The connections a frame of the last callback was sent to.
Recipients(type) == {out[i].to : i \in {j \in DOMAIN out : out[j].type = type}}

ChatFrameTypes == {"chat:message", "chat:read", "chat:typing"}

\* The last callback was the resumption of a handler whose storage call
\* returned successfully.
CallReturned(type) ==
  last.op = "call" /\ last.type = type /\ last.result = "ok"

-----------------------------------------------------------------------------
\* C1: in every reachable state, for every connection ws and chat id c, ws is
\* in the room manager's member set of c iff getUserByWs(ws) is a Session
\* whose chatRooms contains c.
C1_MembershipMatchesSession ==
  \A ws \in WS, c \in Chats :
    ws \in Members(rooms, c)
      <=> (/\ hasUserByWs(PS, ws)
           /\ c \in Range(getUserByWs(PS, ws).chatRooms))

\* C2: right after handleDisconnection ran for a connection that had
\* completed connection-open, the connection is in no room, the directory
\* holds no userId->Session entry and no ws->userId entry for it, and no
\* typing timer installed by it is still pending.
C2_TeardownComplete ==
  \A ws \in WS :
    (last.op = "close" /\ last.ws = ws /\ phase[ws] = "done")
      => /\ \A c \in Chats : ws \notin Members(rooms, c)
         /\ ws \notin DOMAIN wsRooms
         /\ SessionsOf(ws) = {}
         /\ ws \notin DOMAIN wsToUserId
         /\ \A t \in timers : t.ws # ws

\* C3: every connection that completed connection-open and is not closed has
\* a Session under getUserByWs whose ws field is that connection, and no
\* Session exists for a rejected or closed connection.
C3_OneSessionPerLiveConnection ==
  \A ws \in WS :
    /\ Live(ws) => /\ hasUserByWs(PS, ws)
                   /\ getUserByWs(PS, ws).ws = ws
    /\ (phase[ws] = "rejected" \/ tstate[ws] = "closed")
         => /\ ~hasUserByWs(PS, ws)
            /\ SessionsOf(ws) = {}

\* C4: when two live connections share a userId, each keeps its own Session,
\* and closing one of them leaves the other's Session, room memberships and
\* ability to send events intact.
C4_SecondSessionIndependent ==
  \A w \in WS : \A v \in WS \ {w} :
    (Live(v) /\ hcUser[w] = hcUser[v] /\ phase[w] = "done")
      => /\ hasUserByWs(PS, v)
         /\ getUserByWs(PS, v).ws = v
         /\ \A c \in Chats :
              c \in Range(getUserByWs(PS, v).chatRooms) <=> v \in Members(rooms, c)

\* C5: isUserOnline(id) holds iff some connection authenticated as id is
\* live, and a user:online {online: false} notice for id is sent only when
\* no live connection of id remains.
C5_PresenceExact ==
  /\ \A id \in Users :
       isUserOnline(PS, id) <=> \E ws \in WS : Live(ws) /\ hcUser[ws] = id
  /\ \A i \in DOMAIN out :
       (out[i].type = "user:online" /\ out[i].flag = "false")
         => ~\E ws \in WS : Live(ws) /\ hcUser[ws] = out[i].userId

-----------------------------------------------------------------------------
\* C6: when the storage call of a chat:message for c returned successfully,
\* the handler sends one chat:message frame for c to every member of c other
\* than the sending connection, and none to the sending connection.
C6_EchoSuppression ==
  CallReturned("chat:message")
    => /\ Recipients("chat:message") = Members(rooms, last.chatId) \ {last.ws}
       /\ Len(out) = Cardinality(Members(rooms, last.chatId) \ {last.ws})
       /\ \A i \in DOMAIN out :
            out[i].type = "chat:message" /\ out[i].chatId = last.chatId

\* A member of c sent a chat:message, it was persisted, and another member
\* received the broadcast.
C6_Witness ==
  /\ CallReturned("chat:message")
  /\ Live(last.ws)
  /\ last.ws \in Members(rooms, last.chatId)
  /\ \E v \in WS \ {last.ws} : v \in Recipients("chat:message")

\* C7: when the storage call of a chat:read for c returned successfully and
\* the sending connection is a member of c, the chat:read frame is sent to
\* all members of c, the sending connection included.
C7_ReadReceiptInclusive ==
  (CallReturned("chat:read") /\ last.ws \in Members(rooms, last.chatId))
    => /\ last.ws \in Recipients("chat:read")
       /\ Recipients("chat:read") = Members(rooms, last.chatId)

\* C8: a chat:message, chat:read or chat:typing frame for topic c is only
\* ever sent to connections that are members of c when it is broadcast.
C8_TopicIsolation ==
  \A i \in DOMAIN out :
    out[i].type \in ChatFrameTypes
      => out[i].to \in Members(rooms, out[i].chatId)

\* A member of A and B had its event for B broadcast while another live
\* connection is a member of A only, and that connection received nothing.
C8_Witness ==
  /\ last.op \in {"call", "event", "timer"}
  /\ last.type \in ChatFrameTypes
  /\ last.chatId = "B"
  /\ last.result \in {"ok", "true", "false", None}
  /\ last.ws \in Members(rooms, "A") \cap Members(rooms, "B")
  /\ \E v \in WS \ {last.ws} :
       /\ Live(v)
       /\ v \in Members(rooms, "A") \ Members(rooms, "B")
       /\ \A i \in DOMAIN out : out[i].to # v

\* The premise of C9 for connection ws and chat c: the step handles a chat
\* event of an Active connection for a topic outside the topic set of the
\* Session getUserByWs returns for it.
C9_NonMemberEvent(ws, c) ==
  /\ last'.op = "event" /\ last'.ws = ws
  /\ last'.type \in ChatFrameTypes /\ last'.chatId = c
  /\ initialized[ws]
  /\ hasUserByWs(PS, ws)
  /\ c \notin Range(getUserByWs(PS, ws).chatRooms)

\* The conclusion of C9: one NOT_PARTICIPANT error to the sender, no storage
\* call, no broadcast, no timer, registry and directory unchanged.
C9_Refused(ws) ==
  /\ out' = <<ErrorFrame(ws, "NOT_PARTICIPANT")>>
  /\ UNCHANGED <<rooms, wsRooms, connectedUsers, wsToUserId, timers,
                 inflight, tstate>>

\* C9 as stated: every chat:message, chat:read or chat:typing event of an
\* Active connection for a topic outside its Session's topic set is refused
\* with NOT_PARTICIPANT and has no other effect.
C9_MembershipEnforced ==
  [][\A ws \in WS, c \in Chats : C9_NonMemberEvent(ws, c) => C9_Refused(ws)]_vars

\* C9 as amended: every such event whose payload passes the handler's field
\* validation is refused with NOT_PARTICIPANT and has no other effect (a
\* payload that fails validation is answered VALIDATION_ERROR first).
C9_MembershipEnforcedWhenValid ==
  [][\A ws \in WS, c \in Chats :
       (C9_NonMemberEvent(ws, c) /\ last'.valid) => C9_Refused(ws)]_vars

\* A live connection that is in topic A only was refused an event for B.
C9_Witness ==
  /\ last.op = "event" /\ last.type \in ChatFrameTypes /\ last.chatId = "B"
  /\ last.valid
  /\ Live(last.ws)
  /\ hasUserByWs(PS, last.ws)
  /\ getUserByWs(PS, last.ws).ws = last.ws
  /\ getUserByWs(PS, last.ws).chatRooms = <<"A">>
  /\ out = <<ErrorFrame(last.ws, "NOT_PARTICIPANT")>>

\* C10: when the storage call of a chat:message fails, the handler sends
\* exactly one HTTP_ERROR error frame to the originating connection, sends no
\* chat:message frame to anyone, and does not close the connection.
C10_NoPartialBroadcast ==
  [][(last'.op = "call" /\ last'.type = "chat:message"
        /\ last'.result = "HTTP_ERROR")
       => /\ out' = <<ErrorFrame(last'.ws, "HTTP_ERROR")>>
          /\ tstate' = tstate]_vars

\* The storage call of a chat:message of a live member failed while another
\* connection is a member of the same topic.
C10_Witness ==
  /\ last.op = "call" /\ last.type = "chat:message"
  /\ last.result = "HTTP_ERROR"
  /\ tstate[last.ws] = "open"
  /\ \E v \in WS \ {last.ws} : v \in Members(rooms, last.chatId)
  /\ last.ws \in Members(rooms, last.chatId)

-----------------------------------------------------------------------------
\* Vocabulary of the makeRequest properties.

\* A server-fault (5xx) status, a network failure or a timeout.
ServerOrNetworkFault(o) ==
  \/ o.kind \in {"network", "timeout"}
  \/ o.kind = "status" /\ o.status >= 500

\* A client-fault (4xx) status.
ClientFault(o) == o.kind = "status" /\ o.status >= 400 /\ o.status < 500

MrDone == mr.pc \in {"returned", "thrown"}

\* C11: a call whose first two attempts fail with a 5xx status, a network
\* failure or a timeout and whose third attempt succeeds returns the success
\* value; a call whose attempt returns a 4xx status throws that status at once
\* and issues no further attempt.
C11_RetryClassification ==
  /\ (/\ Len(mr.log) = 3
      /\ ServerOrNetworkFault(mr.log[1])
      /\ ServerOrNetworkFault(mr.log[2])
      /\ mr.log[3].kind = "json")
       => mr.pc = "returned" /\ mr.result = Returned
  /\ \A i \in DOMAIN mr.log :
       ClientFault(mr.log[i])
         => /\ i = Len(mr.log)
            /\ mr.pc = "thrown"
            /\ mr.result.name = "HttpError"
            /\ mr.result.statusCode = mr.log[i].status

\* Two different retryable faults, slept 1000 and 2000 ms, then success.
C11_Witness ==
  /\ mr.pc = "returned"
  /\ Len(mr.log) = 3
  /\ mr.log[1].kind = "status" /\ mr.log[1].status = 503
  /\ mr.log[2].kind = "timeout"
  /\ mr.delays = <<1000, 2000>>
  /\ mr.result = Returned

\* The safety part of C12, a predicate of one state.
C12_AtMostThreeAndLastCause ==
  /\ Len(mr.log) <= Retries
  /\ (/\ mr.pc = "thrown"
      /\ Len(mr.log) = Retries
      /\ \A i \in DOMAIN mr.log :
           mr.log[i].kind # "json" /\ ~ClientFault(mr.log[i]))
       => /\ mr.result.name = "HttpError"
          /\ mr.result.code = "HTTP_ERROR"
          /\ mr.result.originalError = MessageOf(mr.log[Len(mr.log)])

\* C12: makeRequest issues at most 3 attempts, it terminates, and when every
\* attempt failed with a fault it retries, it throws an HttpError with code
\* HTTP_ERROR whose details carry the message of the last attempt's error.
C12_BoundedRetry == []C12_AtMostThreeAndLastCause /\ <>MrDone

\* Three attempts failed, the first and the last with different faults.
C12_Witness ==
  /\ mr.pc = "thrown"
  /\ Len(mr.log) = Retries
  /\ mr.log[1].kind = "network"
  /\ mr.log[3].kind = "status" /\ mr.log[3].status = 500
  /\ mr.result.originalError = "HTTP 500"

-----------------------------------------------------------------------------
\* The results handleConnection records for a rejected connection.
RejectHows == {o.how : o \in AuthFailures} \cup {"no-token"}

\* The connection has no Session, no directory index and no room membership.
Unregistered(ws) ==
  /\ SessionsOf(ws) = {}
  /\ ws \notin DOMAIN wsToUserId
  /\ ws \notin DOMAIN wsRooms
  /\ \A c \in Chats : ws \notin Members(rooms, c)

\* C13: a connection without a credential, or whose identity lookup ends in
\* anything but a complete profile, is sent one AUTH_FAILED error frame and
\* closed with 4001; the topic-list fetch is never issued for it and it never
\* gets a Session or a room membership.
C13_AuthRejection ==
  [][\A ws \in WS :
       /\ (phase[ws] \in {"new", "auth"} /\ phase'[ws] # phase[ws])
            => \/ /\ phase'[ws] = "auth"
                  /\ phase[ws] = "new"
               \/ /\ phase'[ws] = "chats"
                  /\ last'.result = "profile"
               \/ /\ phase'[ws] = "rejected"
                  /\ last'.op = "connect" /\ last'.ws = ws
                  /\ last'.result \in RejectHows
                  /\ out' = <<ErrorFrame(ws, "AUTH_FAILED"),
                              CloseCall(ws, AuthCloseCode)>>
                  /\ tstate'[ws] \in {"closing", "closed"}
                  /\ UNCHANGED <<rooms, wsRooms, connectedUsers, wsToUserId>>
       /\ phase'[ws] = "rejected" => Unregistered(ws)'
       /\ phase[ws] = "rejected" => phase'[ws] = "rejected"]_vars

\* A profile without an email was rejected while the other connection is
\* live with a Session and room memberships.
C13_Witness ==
  /\ last.op = "connect" /\ last.result = "no-email"
  /\ phase[last.ws] = "rejected"
  /\ tstate[last.ws] = "closing"
  /\ \E v \in WS \ {last.ws} :
       Live(v) /\ hasUserByWs(PS, v) /\ v \in Members(rooms, "A")

\* C14: when the topic-list fetch failed, the connection becomes Active with
\* an empty topic set: a Session of its own is registered, it is in no room,
\* the only frame sent is its connected frame with chatIds = [], and ws.close
\* is not called.
C14_SoftFail ==
  (last.op = "connect" /\ last.result = "soft-fail")
    => /\ phase[last.ws] = "done"
       /\ initialized[last.ws]
       /\ hasUserByWs(PS, last.ws)
       /\ getUserByWs(PS, last.ws).ws = last.ws
       /\ getUserByWs(PS, last.ws).userId = hcUser[last.ws]
       /\ getUserByWs(PS, last.ws).chatRooms = <<>>
       /\ last.ws \notin DOMAIN wsRooms
       /\ \A c \in Chats : last.ws \notin Members(rooms, c)
       /\ out = <<ConnectedFrame(last.ws, hcUser[last.ws], <<>>)>>

\* The topic-list fetch of u1 failed on an open connection while a connection
\* of u2 is live in topic A.
C14_Witness ==
  /\ last.op = "connect" /\ last.result = "soft-fail"
  /\ tstate[last.ws] = "open"
  /\ hcUser[last.ws] = "u1"
  /\ \E v \in WS \ {last.ws} :
       Live(v) /\ hcUser[v] = "u2" /\ v \in Members(rooms, "A")

\* The last callback completed a connection-open (Session registered).
Connected == last.op = "connect" /\ last.result \in {"connected", "soft-fail"}

\* The frame announces the identity of the connection that just opened.
IsOwnAnnouncement(f) ==
  f.type = "user:online" /\ f.flag = "true" /\ f.userId = hcUser[last.ws]

\* The frame tells the new connection that a peer is online.
IsBackfill(f) ==
  f.type = "user:online" /\ f.flag = "true" /\ f.to = last.ws
    /\ f.userId # hcUser[last.ws]

\* C15: on every successful connection-open the first frame sent is the
\* connected acknowledgement to the new connection, then come the backfill
\* frames, and only after them the announcements of the new identity.
C15_ConnectedFirst ==
  Connected
    => /\ out # <<>>
       /\ out[1].type = "connected" /\ out[1].to = last.ws
       /\ \A i \in 2..Len(out) : IsBackfill(out[i]) \/ IsOwnAnnouncement(out[i])
       /\ \A i \in 2..Len(out) : \A j \in 2..Len(out) :
            (IsOwnAnnouncement(out[i]) /\ IsBackfill(out[j])) => j < i

\* The number of announcements of the new identity sent to connection v.
AnnouncementsTo(v) ==
  Cardinality({i \in DOMAIN out : IsOwnAnnouncement(out[i]) /\ out[i].to = v})

\* C16: when an identity connects with topic list T, every live connection
\* of another identity that is a member of one or more topics of T receives
\* exactly one user:online {online: true} notice for that identity.
C16_OneAnnouncementPerPeer ==
  Connected
    => \A v \in WS \ {last.ws} :
         (/\ Live(v)
          /\ hcUser[v] # hcUser[last.ws]
          /\ \E c \in Range(getUserByWs(PS, last.ws).chatRooms) :
               v \in Members(rooms, c))
           => AnnouncementsTo(v) = 1

\* C17: for every connection whose close sequence already ran, running
\* handleDisconnection again changes neither the registry nor the directory,
\* cancels no timer and sends no frame.
C17_CloseIdempotent ==
  \A ws \in WS :
    tstate[ws] = "closed"
      => handleDisconnection(PS, RM, timers, ws) =
           [ps |-> PS, rm |-> RM, timers |-> timers, out |-> <<>>,
            userId |-> None]

\* The step is the close callback of an Active connection ws: it completed
\* connection-open, its transport is open and it is closed by this step.
ClosesActive(ws) ==
  /\ phase[ws] = "done" /\ initialized[ws] /\ tstate[ws] = "open"
  /\ last'.op = "close" /\ last'.ws = ws

\* C18: when an Active connection closes, its Session is removed, it leaves
\* all rooms, and a user:online {online: false} notice for its identity is
\* sent to every remaining member of every topic it was in, and not to the
\* closing connection.
C18_OfflineAnnouncement ==
  [][\A ws \in WS :
       ClosesActive(ws)
         => /\ Unregistered(ws)'
            /\ \A i \in DOMAIN out' :
                 /\ out'[i] = UserOnlineFrame(out'[i].to, hcUser[ws], "false")
                 /\ out'[i].to # ws
            /\ \A c \in Chats :
                 ws \in Members(rooms, c)
                   => \A v \in Members(rooms, c) \ {ws} :
                        \E i \in DOMAIN out' : out'[i].to = v]_vars

\* C19: a frame (a ping included) that arrives on a connection that has not
\* completed connection-open is answered with one AUTH_FAILED error, the
\* connection is closed with 4001, and no handler runs: no pong, no storage
\* call, no broadcast, no timer, registry and directory unchanged.
C19_ActiveStatePrecondition ==
  [][\A ws \in WS :
       (last'.op = "event" /\ last'.ws = ws /\ phase[ws] # "done")
         => /\ out' = <<ErrorFrame(ws, "AUTH_FAILED"),
                        CloseCall(ws, AuthCloseCode)>>
            /\ tstate'[ws] = "closing"
            /\ UNCHANGED <<rooms, wsRooms, connectedUsers, wsToUserId,
                           timers, inflight>>]_vars

\* A ping arrived while the topic-list fetch of its connection was pending,
\* and the other connection is live.
C19_Witness ==
  /\ last.op = "event" /\ last.type = "ping" /\ last.result = "AUTH_FAILED"
  /\ phase[last.ws] = "chats"
  /\ tstate[last.ws] = "closing"
  /\ \E v \in WS \ {last.ws} : Live(v) /\ hasUserByWs(PS, v)

\* The conclusion of C20 for connection ws: one VALIDATION_ERROR error frame,
\* nothing else sent, no storage call, no timer, registry and directory
\* unchanged, and the connection stays open.
C20_RefusedTooLarge(ws) ==
  /\ out' = <<ErrorFrame(ws, "VALIDATION_ERROR")>>
  /\ tstate'[ws] = "open"
  /\ UNCHANGED <<rooms, wsRooms, connectedUsers, wsToUserId, timers,
                 inflight>>

\* C20 as stated: every inbound frame longer than config.maxMessageSize is
\* answered with one VALIDATION_ERROR error frame, changes no state and leaves
\* the connection open.
C20_OversizedFrame ==
  [][\A ws \in WS :
       (last'.op = "event" /\ last'.ws = ws /\ last'.type = "oversize")
         => C20_RefusedTooLarge(ws)]_vars

\* C20 as amended: every such frame that arrives on an Active connection
\* (ws.data.initialized is set) is answered so.
C20_OversizedFrameWhenActive ==
  [][\A ws \in WS :
       (/\ last'.op = "event" /\ last'.ws = ws /\ last'.type = "oversize"
        /\ initialized[ws])
         => C20_RefusedTooLarge(ws)]_vars

\* An oversized frame of a live member of A and B was refused while it has a
\* storage call in flight and the other connection is live.
C20_Witness ==
  /\ last.op = "event" /\ last.type = "oversize"
  /\ last.result = "VALIDATION_ERROR"
  /\ Live(last.ws)
  /\ last.ws \in Members(rooms, "A") \cap Members(rooms, "B")
  /\ inflight # <<>>
  /\ \E v \in WS \ {last.ws} : Live(v)

-----------------------------------------------------------------------------
\* C21: a non-JSON frame, an envelope without a type or with a type that is
\* not a string, and an envelope with an unknown type, arriving on an Active
\* connection, get exactly one INVALID_MESSAGE error reply; nothing is
\* broadcast, no storage call is made, registry, directory and timers are
\* unchanged and the connection stays open.
C21_MalformedInput ==
  [][\A ws \in WS :
       (/\ last'.op = "event" /\ last'.ws = ws
        /\ last'.type = "malformed"
        /\ initialized[ws])
         => /\ out' = <<ErrorFrame(ws, "INVALID_MESSAGE")>>
            /\ tstate'[ws] = "open"
            /\ UNCHANGED <<rooms, wsRooms, connectedUsers, wsToUserId,
                           timers, inflight, initialized, phase>>]_vars
-----------------------------------------------------------------------------
\* The last callback handled a chat:typing event of ws for chat c whose
\* isTyping is v ("true" or "false").
TypingEvent(ws, c, v) ==
  /\ last.op = "event" /\ last.ws = ws /\ last.type = "chat:typing"
  /\ last.chatId = c /\ last.result = v

\* The pending typing timers of an identity for a chat.
PendingFor(tm, userId, c) == {t \in tm : t.userId = userId /\ t.chatId = c}

\* C22: when a connection sends chat:typing true for a chat while the timer
\* of its earlier true signal for that chat is still pending, then after the
\* event exactly one timer is pending for that (identity, chat): the earlier
\* one was cancelled, so only the timer of the last signal produces a
\* synthetic stop-typing broadcast.
C22_TypingDebounce ==
  [][\A ws \in WS, c \in Chats :
       (/\ TypingEvent(ws, c, "true")'
        /\ \E t \in timers : t.ws = ws /\ t.chatId = c)
         => Cardinality(PendingFor(timers', hcUser[ws], c)) = 1]_vars
\* C23: after a connection's chat:typing false for a chat, no timer is
\* pending for that (identity, chat) and the Session of the identity stores
\* no timer for the chat, so no synthetic stop-typing follows until a later
\* true signal installs a timer.
C23_ExplicitStopClearsTimer ==
  [][\A ws \in WS, c \in Chats :
       TypingEvent(ws, c, "false")'
         => /\ PendingFor(timers', hcUser[ws], c) = {}
            /\ \A u \in DOMAIN connectedUsers' :
                 u = hcUser[ws] => c \notin DOMAIN connectedUsers'[u].typingTimers]_vars
\* The last callback was the typing timeout installed by ws for chat c.
TimerFired(ws, c) ==
  /\ last.op = "timer" /\ last.ws = ws /\ last.chatId = c

\* C24: the chat:typing frames of a live typing event, and of the synthetic
\* stop-typing broadcast of a typing timeout, go to the chat's members other
\* than the originating connection and never to that connection.
C24_TypingEchoSuppression ==
  \A ws \in WS, c \in Chats :
    (\/ TypingEvent(ws, c, "true")
     \/ TypingEvent(ws, c, "false")
     \/ TimerFired(ws, c))
      => /\ Recipients("chat:typing") = Members(rooms, c) \ {ws}
         /\ \A i \in DOMAIN out :
              /\ out[i].type = "chat:typing" /\ out[i].chatId = c
              /\ out[i].to # ws
              /\ TimerFired(ws, c) => out[i].flag = "false"

C24_Witness ==
  \E ws \in WS, c \in Chats :
    /\ TypingEvent(ws, c, "true")
    /\ ws \in Members(rooms, c)
    /\ Recipients("chat:typing") # {}
\* A chat:typing false for identity u and chat c was broadcast by the last
\* callback: the synthetic one of a typing timeout, or a live one.
StopBroadcast(u, c) ==
  \E w \in WS :
    /\ hcUser[w] = u
    /\ TimerFired(w, c) \/ TypingEvent(w, c, "false")

\* Every pending timer is one of TimerRecords.
TimersAreRecords == timers \subseteq TimerRecords

\* C25: after a connection's chat:typing true for a chat it belongs to,
\* eventually a chat:typing false for its identity and the chat is
\* broadcast, or the connection has been closed.
C25_AutoStop ==
  \A ws \in WS, c \in Chats :
    (TypingEvent(ws, c, "true") /\ tstate[ws] = "open")
      ~> (StopBroadcast(hcUser[ws], c) \/ tstate[ws] = "closed")
\* C26: once the close callback of a connection has run, no typing timer
\* installed by that connection is pending, and no typing timeout of that
\* connection runs (no synthetic stop-typing originates from it).
C26_NoTimerAfterTeardown ==
  \A ws \in WS :
    tstate[ws] = "closed"
      => /\ \A t \in timers : t.ws # ws
         /\ ~(last.op = "timer" /\ last.ws = ws)
\* C27: when the storage call of a chat:message or chat:read event returns
\* after the close callback of its connection has run (the Session is
\* removed), the resumed handler broadcasts no frame.
C27_LateResponseDiscarded ==
  \A ws \in WS :
    (/\ last.op = "call" /\ last.ws = ws /\ last.result = "ok"
     /\ tstate[ws] = "closed" /\ ~hasUserByWs(PS, ws))
      => out = <<>>
\* C28: when the storage call of a chat:message returns, the frame is sent
\* to no connection that has already been sent the frame of a chat:message
\* the same connection sent later for the same chat: every member receives
\* the broadcasts of one connection's messages in the order the connection
\* sent them.
C28_PerConnectionOrder ==
  [][\A i \in DOMAIN inflight :
       (CallOk(i) /\ inflight[i].type = "chat:message")
         => inflight[i].passedTo \cap Recipients("chat:message")' = {}]_vars
\* C29: a joinRoom call for a connection that is already a member of the
\* room, and a leaveRoom call for a connection that is not a member of the
\* room (the room may not exist), leave the room map and the per-connection
\* index unchanged, and with them getRoomParticipants and getRoomCount of
\* every chat.
C29_RegistryIdempotence ==
  [][\A ws \in WS, c \in Chats :
       (\/ /\ last'.op = "joinRoom" /\ last'.ws = ws /\ last'.chatId = c
           /\ ws \in Members(rooms, c)
        \/ /\ last'.op = "leaveRoom" /\ last'.ws = ws /\ last'.chatId = c
           /\ ws \notin Members(rooms, c))
         => /\ rooms' = rooms
            /\ wsRooms' = wsRooms
            /\ \A d \in Chats :
                 /\ getRoomParticipants(rooms', d) = getRoomParticipants(rooms, d)
                 /\ getRoomCount(rooms', d) = getRoomCount(rooms, d)]_vars

C29_Witness ==
  /\ last.op = "leaveRoom" /\ last.result = "not-member" /\ last.type = "room"
  /\ rooms # EmptyMap

\* C30: after every joinRoom, leaveRoom and leaveAllRooms call no room of
\* the room map has zero members, and a joinRoom for a chat id that has no
\* room creates the room with exactly the joining connection.
C30_NoEmptyRooms ==
  [][/\ \A c \in DOMAIN rooms' : Len(rooms'[c]) > 0
     /\ \A ws \in WS, c \in Chats :
          (/\ last'.op = "joinRoom" /\ last'.ws = ws /\ last'.chatId = c
           /\ c \notin DOMAIN rooms)
            => c \in DOMAIN rooms' /\ rooms'[c] = <<ws>>]_vars

C30_Witness ==
  /\ last.op \in {"leaveRoom", "leaveAllRooms"}
  /\ \E c \in Chats : c \notin DOMAIN rooms
  /\ \E c \in Chats : c \in DOMAIN rooms
\* C31: when ws.send of one non-excluded member of the room throws during
\* broadcastToRoom, the frame is still passed to ws.send of every
\* non-excluded member, in the room's order, and the call returns normally.
C31_BroadcastFailureIsolation ==
  [][\A c \in Chats, ex \in WS \cup {None}, th \in WS :
       (BroadcastCall(c, ex, th) /\ th \in Members(rooms, c) \ {ex})
         => /\ last'.result = "returned"
            /\ {out'[i].to : i \in DOMAIN out'} = Members(rooms, c) \ {ex}
            /\ Len(out') = Cardinality(Members(rooms, c) \ {ex})
            /\ out' = broadcastToRoom(rooms, c,
                                      ChatMessageFrame(None, c, None), ex)]_vars

C31_Witness ==
  /\ last.op = "broadcastToRoom"
  /\ Len(out) = 2
  /\ out[1].to = last.ws
  /\ out[2].to # last.ws
\* C32: after every sequence of joinRoom, leaveRoom and leaveAllRooms calls,
\* for every chat id the participants getRoomParticipants returns are the
\* member set of the reference model (a plain set per chat id: add on join,
\* remove on leave), without repetition, and getRoomCount is that set's
\* cardinality.
C32_NetEffectMembership ==
  \A c \in Chats :
    /\ Range(getRoomParticipants(rooms, c)) = plain[c]
    /\ Len(getRoomParticipants(rooms, c)) = Cardinality(plain[c])
    /\ getRoomCount(rooms, c) = Cardinality(plain[c])

C32_Witness ==
  /\ last.op = "leaveAllRooms"
  /\ \E c \in Chats : plain[c] # {} /\ last.ws \notin plain[c]
  /\ \E ws \in WS : \A c \in Chats : ws \in plain[c]
\* C33: when a shutdown signal is handled while the process is running,
\* every connection that is open and Active is sent the SERVER_SHUTDOWN
\* notification and then closed with code 1001 in that step (before the
\* exit), and a signal that arrives while shutting down changes nothing and
\* sends nothing.
C33_ShutdownReachesEveryConnection ==
  [][/\ (last'.op = "signal" /\ ~isShuttingDown)
          => \A ws \in WS :
               (Live(ws) /\ tstate[ws] = "open")
                 => \E i \in DOMAIN out' :
                      /\ i + 1 \in DOMAIN out'
                      /\ out'[i].type = "error" /\ out'[i].to = ws
                      /\ out'[i].code = "SERVER_SHUTDOWN"
                      /\ out'[i + 1].type = "close" /\ out'[i + 1].to = ws
                      /\ out'[i + 1].code = ShutdownCloseCode
     /\ (last'.op = "signal" /\ isShuttingDown)
          => /\ out' = <<>>
             /\ UNCHANGED <<tstate, phase, hcUser, initialized, rooms,
                            wsRooms, connectedUsers, wsToUserId, timers,
                            inflight, process>>]_vars
\* C34: when handleConnection finishes for a connection whose close callback
\* already ran (the transport closed while handleConnection was suspended in
\* authentication or in the chat-list fetch), the directory holds no Session
\* and no ws->userId entry for the connection and the room manager no
\* membership of it.
C34_NoSessionForDeadConnection ==
  \A ws \in WS :
    (/\ last.op \in {"auth", "connect"} /\ last.ws = ws
     /\ phase[ws] \in {"done", "rejected"}
     /\ tstate[ws] = "closed")
      => /\ SessionsOf(ws) = {}
         /\ ws \notin DOMAIN wsToUserId
         /\ ws \notin DOMAIN wsRooms
         /\ \A c \in Chats : ws \notin Members(rooms, c)
\* C35: the requests of one httpClient.sendMessage call (one inbound
\* chat:message event) create at most one message record in the storage
\* service.
C35_AtMostOncePersistence == Created(mr.log) <= 1
\* C36: in every reachable state, every handle stored in the typingTimers
\* map of a Session is the handle of a pending timer: it neither fired nor
\* was cancelled.
C36_TimerMapHoldsPendingTimers ==
  \A u \in DOMAIN connectedUsers :
    \A c \in DOMAIN connectedUsers[u].typingTimers :
      \E t \in timers : t.id = connectedUsers[u].typingTimers[c]
\* The connections the frames of a type among `frames` were sent to.
SentTo(frames, type) ==
  {frames[i].to : i \in {j \in DOMAIN frames : frames[j].type = type}}

\* C37: the frames a callback broadcasts go to exactly the members the room
\* has when broadcastToRoom is called (less the excluded connection): the
\* chat:message / chat:read frame of a returned storage call, the
\* chat:typing frame of a typing event or timeout, and the offline
\* announcement of a close, which goes to the members left after the closing
\* connection was removed and never to the closing connection.
C37_MembershipSnapshot ==
  [][\A ws \in WS :
       /\ (last'.op = "close" /\ last'.ws = ws /\ hasUserByWs(PS, ws))
            => /\ SentTo(out', "user:online") =
                    UNION {Members(rooms', c) :
                             c \in Range(getUserByWs(PS, ws).chatRooms)}
               /\ ws \notin SentTo(out', "user:online")
               /\ \A i \in DOMAIN out' : out'[i].type = "user:online"
       /\ (/\ last'.ws = ws
           /\ \/ last'.op = "call" /\ last'.result = "ok"
              \/ last'.op = "timer"
              \/ /\ last'.op = "event" /\ last'.type = "chat:typing"
                 /\ last'.result \in {"true", "false"})
            => /\ SentTo(out', last'.type) = Members(rooms', last'.chatId) \ {ws}
               /\ \A i \in DOMAIN out' : out'[i].type = last'.type]_vars

C37_Witness ==
  /\ last.op = "close"
  /\ Recipients("user:online") # {}
  /\ \E c \in Chats : Members(rooms, c) # {}
\* C38: after every sequence of joinRoom, leaveRoom and leaveAllRooms calls,
\* a connection is in rooms[c] iff c is in wsRooms of the connection,
\* neither map stores an empty set, and right after leaveAllRooms(ws) the
\* connection ws is in no room and has no index entry.
C38_IndexConsistency ==
  /\ \A ws \in WS, c \in Chats :
       ws \in Members(rooms, c)
         <=> (ws \in DOMAIN wsRooms /\ c \in Range(wsRooms[ws]))
  /\ \A c \in DOMAIN rooms : Len(rooms[c]) > 0
  /\ \A ws \in DOMAIN wsRooms : Len(wsRooms[ws]) > 0
  /\ \A ws \in WS :
       (last.op = "leaveAllRooms" /\ last.ws = ws)
         => /\ ws \notin DOMAIN wsRooms
            /\ \A c \in Chats : ws \notin Members(rooms, c)

C38_Witness ==
  /\ last.op = "leaveAllRooms"
  /\ \E ws \in DOMAIN wsRooms : Len(wsRooms[ws]) = 2
  /\ \A c \in Chats : c \in DOMAIN rooms

=============================================================================
